---------------------------- MODULE Spec2Model ----------------------------
(***************************************************************************)
(* Executioner tasks (executioner/tasks.py): the execution context `env`   *)
(* shared by the tasks, the extraction tasks ParseXML / ParseJSON /        *)
(* ParseCSV, the process tasks Execute / CheckExitCode with the watchdog   *)
(* thread, and the socket tasks Connect / Send / Receive / Disconnect.     *)
(*                                                                         *)
(* A task is one action; a blocking call (Popen.wait, socket readline) is  *)
(* a guard on the thing waited for.  `last` records the task that ran      *)
(* last, its arguments and how it ended ("ok" or the exception raised).    *)
(***************************************************************************)
EXTENDS Integers, Sequences, FiniteSets, TLC

VARIABLES env, last, task, procs, sockets, waiting

vars == <<env, last, task, procs, sockets, waiting>>

----------------------------------------------------------------------------
(* Bounds of the model *)

MaxMatches == 2
MaxBindings == 2
MaxRows == 2
MaxProcs == 2
MaxWatched == 1
MaxSockets == 2
MaxInbox == 2
MaxBuf == 3
MaxLines == 2

----------------------------------------------------------------------------
(* Python values held in the context.  Values of different Python types are  *)
(* records with different field names, so that they compare unequal.         *)

PyStr(s) == [str |-> s]
PyInt(i) == [int |-> i]
PyList(xs) == [list |-> xs]
IsList(v) == DOMAIN v = {"list"}

(* The context is a dict: a function whose domain is the set of keys present *)
EmptyEnv == [k \in {} |-> PyInt(0)]
Has(e, k) == k \in DOMAIN e
Put(e, k, v) == [x \in (DOMAIN e) \cup {k} |-> IF x = k THEN v ELSE e[x]]
Del(e, k) == [x \in (DOMAIN e) \ {k} |-> e[x]]

SeqsUpTo(S, n) == UNION {[1..k -> S] : k \in 0..n}

(* map(f, xs) for a sequence *)
MapSeq(F(_), xs) == [i \in 1..Len(xs) |-> F(xs[i])]

(* the task that ran last *)
(* A step of a child process, of a watchdog thread or of the network peer    *)
(* is recorded too, so a step that leaves last'.task = T is a run of T.      *)
Ran(name, err, args) == [task |-> name, err |-> err, args |-> args]
NotRun == Ran("none", "ok", [none |-> TRUE])
NoArgs == [none |-> TRUE]

(* the main flow blocked in Popen.wait() of CheckExitCode(ok) *)
NotWaiting == [on |-> FALSE, ok |-> <<>>, arg |-> [none |-> TRUE]]

----------------------------------------------------------------------------
(* Conversion functions passed to get(): str and int.  The matched values   *)
(* are text; int parses it.                                                 *)

RawVals == {"1", "2"}
Conversions == {"str", "int"}

ParseInt(s) == CASE s = "1" -> 1 [] s = "2" -> 2 [] OTHER -> 0

Conv(c, s) == IF c = "int" THEN PyInt(ParseInt(s)) ELSE PyStr(s)

DestKeys == {"x", "y"}

(* A binding registered by get(): (query, key, conversion) *)
Queries == {"q1", "q2"}
Bindings == [query : Queries, key : DestKeys, conversion : Conversions]
FieldLists == SeqsUpTo(Bindings, MaxBindings)

----------------------------------------------------------------------------
(* ParseXML.run.  The parsed file is given by what tree.xpath returns for   *)
(* each query: the texts of the matched nodes, in document order.           *)

XMLDocs == [Queries -> SeqsUpTo(RawVals, MaxMatches)]

(* one iteration of the loop over self.fields *)
XMLSetField(e, doc, b) ==
    LET values == doc[b.query] IN
    IF Len(values) = 1
    THEN Put(e, b.key, Conv(b.conversion, values[1]))
    ELSE Put(e, b.key, PyList(MapSeq(LAMBDA v : Conv(b.conversion, v), values)))

RECURSIVE XMLLoop(_, _, _, _)
XMLLoop(e, doc, fields, i) ==
    IF i > Len(fields) THEN e
    ELSE XMLLoop(XMLSetField(e, doc, fields[i]), doc, fields, i + 1)

XMLTasks == [kind : {"ParseXML"}, fields : FieldLists, file : XMLDocs]

ParseXMLRun ==
    /\ task.kind = "ParseXML"
    /\ last.task = "none"
    /\ env' = XMLLoop(env, task.file, task.fields, 1)
    /\ last' = Ran("ParseXML", "ok", NoArgs)
    /\ UNCHANGED <<task, procs, sockets, waiting>>

----------------------------------------------------------------------------
(* ParseJSON.run.  A matched value is a leaf or a list of leaves; a query   *)
(* matches leaves only, or exactly one list-valued node.                    *)

JLeaf(s) == [leaf |-> s]
JList(xs) == [elems |-> xs]
IsJList(v) == DOMAIN v = {"elems"}

JSONMatches ==
    {MapSeq(JLeaf, xs) : xs \in SeqsUpTo(RawVals, MaxMatches)}
        \cup {<<JList(xs)>> : xs \in SeqsUpTo(RawVals, MaxMatches)}

JSONDocs == [Queries -> JSONMatches]

JSONSetField(e, doc, b) ==
    LET values == doc[b.query] IN
    IF Len(values) = 1
    THEN IF IsJList(values[1])
         THEN Put(e, b.key,
                  PyList(MapSeq(LAMBDA v : Conv(b.conversion, v), values[1].elems)))
         ELSE Put(e, b.key, Conv(b.conversion, values[1].leaf))
    ELSE Put(e, b.key, PyList(MapSeq(LAMBDA v : Conv(b.conversion, v.leaf), values)))

RECURSIVE JSONLoop(_, _, _, _)
JSONLoop(e, doc, fields, i) ==
    IF i > Len(fields) THEN e
    ELSE JSONLoop(JSONSetField(e, doc, fields[i]), doc, fields, i + 1)

JSONTasks == [kind : {"ParseJSON"}, fields : FieldLists, file : JSONDocs]

ParseJSONRun ==
    /\ task.kind = "ParseJSON"
    /\ last.task = "none"
    /\ env' = JSONLoop(env, task.file, task.fields, 1)
    /\ last' = Ran("ParseJSON", "ok", NoArgs)
    /\ UNCHANGED <<task, procs, sockets, waiting>>

----------------------------------------------------------------------------
(* ParseCSV.run.  A row is the cleaned row dict (column -> trimmed text).   *)
(* A query is the expression  row[val] if row[ifcol] == eq , to which run   *)
(* appends " else None" before eval.                                        *)

None == "None"
Rows == [a : RawVals, b : {"yes", "no"}]
CSVFiles == SeqsUpTo(Rows, MaxRows)
CSVExprs == [val : {"a"}, ifcol : {"b"}, eq : {"yes", "no"}]
CSVBindings == [query : CSVExprs, key : DestKeys, conversion : Conversions]
CSVFieldLists == SeqsUpTo(CSVBindings, MaxBindings)

Eval(expr, row) == IF row[expr.ifcol] = expr.eq THEN row[expr.val] ELSE None

(* the loop over self.fields for one row: results[key] collects the results *)
RECURSIVE CSVRowLoop(_, _, _, _)
CSVRowLoop(results, row, fields, i) ==
    IF i > Len(fields) THEN results
    ELSE LET result == Eval(fields[i].query, row)
             key == fields[i].key
             next == IF result # None
                     THEN IF ~Has(results, key)
                          THEN Put(results, key, <<result>>)
                          ELSE Put(results, key, Append(results[key], result))
                     ELSE results
         IN  CSVRowLoop(next, row, fields, i + 1)

(* the loop over the rows of the reader *)
RECURSIVE CSVFileLoop(_, _, _, _)
CSVFileLoop(results, rows, fields, r) ==
    IF r > Len(rows) THEN results
    ELSE CSVFileLoop(CSVRowLoop(results, rows[r], fields, 1), rows, fields, r + 1)

(* the value the name `conversion` holds after the loops: the conversion of *)
(* the binding iterated last                                                *)
LoopConversion(fields) == fields[Len(fields)].conversion

(* the loop over results.iteritems() *)
CSVStore(e, results, conversion) ==
    [k \in (DOMAIN e) \cup (DOMAIN results) |->
        IF k \in DOMAIN results
        THEN IF Len(results[k]) = 1
             THEN Conv(conversion, results[k][1])
             ELSE PyList(MapSeq(LAMBDA v : Conv(conversion, v), results[k]))
        ELSE e[k]]

CSVTasks == [kind : {"ParseCSV"}, fields : CSVFieldLists, file : CSVFiles]

ParseCSVRun ==
    /\ task.kind = "ParseCSV"
    /\ last.task = "none"
    /\ LET results == CSVFileLoop(EmptyEnv, task.file, task.fields, 1) IN
       env' = IF DOMAIN results = {} THEN env
              ELSE CSVStore(env, results, LoopConversion(task.fields))
    /\ last' = Ran("ParseCSV", "ok", NoArgs)
    /\ UNCHANGED <<task, procs, sockets, waiting>>

----------------------------------------------------------------------------
(* The extraction tasks: one configured task, run once on a context that    *)
(* is empty or already holds values under the destination fields.           *)

Old == PyStr("old")
SeedEnvs == {EmptyEnv, [k \in DestKeys |-> IF k = "x" THEN Old ELSE PyList(<<Old>>)]}
NoTask == [kind |-> "none"]

InitExtract ==
    /\ env \in SeedEnvs
    /\ task \in XMLTasks \cup JSONTasks \cup CSVTasks
    /\ last = NotRun
    /\ procs = <<>>
    /\ sockets = <<>>
    /\ waiting = NotWaiting

NextExtract == ParseXMLRun \/ ParseJSONRun \/ ParseCSVRun

SpecExtract == InitExtract /\ [][NextExtract]_vars

----------------------------------------------------------------------------
(* The collapse rule, per binding.  Matches(i) is what the query of the     *)
(* i-th binding yields on the file; a binding is judged when no other       *)
(* binding of the task names its destination field.                         *)

OwnField(fields, i) ==
    \A j \in 1..Len(fields) : j # i => fields[j].key # fields[i].key

Matches(i) ==
    LET b == task.fields[i] IN
    IF task.kind = "ParseCSV"
    THEN SelectSeq(MapSeq(LAMBDA row : Eval(b.query, row), task.file),
                   LAMBDA v : v # None)
    ELSE task.file[b.query]

(* the text of a matched value that is not list-valued *)
Text(v) == IF task.kind = "ParseJSON" THEN v.leaf ELSE v

HasRun == last.task \in {"ParseXML", "ParseJSON", "ParseCSV"}

(* C1: a query that yields exactly one matched value v leaves the scalar    *)
(* conversion(v) in the destination field, never a list (also when the one  *)
(* matched value of a ParseJSON query is list-valued).                      *)
C1_SingleMatchIsScalar ==
    HasRun =>
        \A i \in 1..Len(task.fields) :
            LET b == task.fields[i]
                m == Matches(i)
            IN  (OwnField(task.fields, i) /\ Len(m) = 1) =>
                    /\ Has(env, b.key)
                    /\ ~IsList(env[b.key])
                    /\ (task.kind = "ParseJSON" /\ IsJList(m[1]))
                         \/ env[b.key] = Conv(b.conversion, Text(m[1]))

(* C2: a query that yields no matched value leaves the empty list in the    *)
(* destination field, whatever the field held before.                       *)
C2_NoMatchIsEmptyList ==
    HasRun =>
        \A i \in 1..Len(task.fields) :
            LET b == task.fields[i] IN
            (OwnField(task.fields, i) /\ Len(Matches(i)) = 0) =>
                Has(env, b.key) /\ env[b.key] = PyList(<<>>)

(* C3: a query that yields N > 1 matched values leaves the list of their    *)
(* conversions, in match order, in the destination field.                   *)
C3_ManyMatchesIsList ==
    HasRun =>
        \A i \in 1..Len(task.fields) :
            LET b == task.fields[i]
                m == Matches(i)
            IN  (OwnField(task.fields, i) /\ Len(m) > 1) =>
                    /\ Has(env, b.key)
                    /\ env[b.key] =
                         PyList(MapSeq(LAMBDA v : Conv(b.conversion, Text(v)), m))

----------------------------------------------------------------------------
(* Processes.  procs[pid] is the child process spawned by the pid-th        *)
(* Execute: whether it runs, its return code, whether Execute was given a   *)
(* timeout, the state of the watchdog thread started for it, and whether    *)
(* the program ever exits by itself.                                        *)

Process(pid) == [process |-> pid]
Pipe(pid, name) == [pipe |-> name, of |-> pid]

ExitCodes == {0, 1}
KillCodes == {0 - 9}

(* the allow-lists given to Return *)
ReturnFieldSets == {{}, {"EXIT_CODE"}}

(* A socket object that no context key refers to any more is collected,     *)
(* which closes it; the reader stored under SOCKET_FILE holds the socket    *)
(* as well as the handle stored under SOCKET.                               *)
Referenced(e, sid) ==
    \/ Has(e, "SOCKET") /\ e["SOCKET"] = [socket |-> sid]
    \/ Has(e, "SOCKET_FILE") /\ e["SOCKET_FILE"] = [makefile |-> sid]

Collect(socks, e) ==
    [sid \in 1..Len(socks) |->
        IF socks[sid].open /\ ~Referenced(e, sid)
        THEN [socks[sid] EXCEPT !.open = FALSE, !.inbox = <<>>]
        ELSE socks[sid]]

(* Return.run, the allow-list drawn from fieldSets *)
ReturnRun_CreatesMissing(fieldSets) ==
    \E fields \in fieldSets :
        /\ ~waiting.on
        /\ env' = [k \in fields |-> IF Has(env, k) THEN env[k] ELSE None]
        /\ last' = Ran("Return", "ok", [fields |-> fields])
        /\ UNCHANGED <<task, procs, sockets, waiting>>

ReturnRun(fieldSets) ==
    \E fields \in fieldSets :
        /\ ~waiting.on
        /\ LET unwanted == (DOMAIN env) \ fields IN
           env' = [k \in (DOMAIN env) \ unwanted |-> env[k]]
        /\ sockets' = Collect(sockets, env')
        /\ last' = Ran("Return", "ok", [fields |-> fields])
        /\ UNCHANGED <<task, procs, waiting>>

Return == ReturnRun(ReturnFieldSets)

(* Execute.run: Popen, the context keys, the watchdog thread.  `ignore` is  *)
(* the set of values the ignore_stdout / ignore_stderr options are drawn    *)
(* from.                                                                    *)
SetStreams(e, pid, ignore_stdout, ignore_stderr) ==
    LET e1 == Put(Put(e, "PROCESS", Process(pid)), "STDIN", Pipe(pid, "stdin"))
        e2 == IF ~ignore_stdout THEN Put(e1, "STDOUT", Pipe(pid, "stdout")) ELSE e1
    IN  IF ~ignore_stderr THEN Put(e2, "STDERR", Pipe(pid, "stderr")) ELSE e2

ExecuteRun_NoWatchdog(ignore) ==
    \E timeout \in BOOLEAN, hangs \in BOOLEAN,
       ignore_stdout \in ignore, ignore_stderr \in ignore :
        /\ ~waiting.on
        /\ Len(procs) < MaxProcs
        /\ LET pid == Len(procs) + 1 IN
           /\ procs' = Append(procs, [state |-> "running", code |-> 0,
                                      timeout |-> timeout, hangs |-> hangs,
                                      watchdog |-> "none"])
           /\ env' = SetStreams(env, pid, ignore_stdout, ignore_stderr)
           /\ last' = Ran("Execute", "ok", [pid |-> pid])
        /\ UNCHANGED <<task, sockets, waiting>>

ExecuteRun_Waits(ignore) ==
    \E timeout \in BOOLEAN, hangs \in BOOLEAN,
       ignore_stdout \in ignore, ignore_stderr \in ignore :
        /\ ~waiting.on
        /\ Len(procs) < MaxProcs
        /\ ~hangs
        /\ LET pid == Len(procs) + 1 IN
           /\ \E c \in ExitCodes :
                  procs' = Append(procs, [state |-> "exited", code |-> c,
                                          timeout |-> timeout, hangs |-> hangs,
                                          watchdog |-> "started"])
           /\ env' = SetStreams(env, pid, ignore_stdout, ignore_stderr)
           /\ last' = Ran("Execute", "ok", [pid |-> pid])
        /\ UNCHANGED <<task, sockets, waiting>>

ExecuteRun(ignore) ==
    \E timeout \in BOOLEAN, hangs \in BOOLEAN,
       ignore_stdout \in ignore, ignore_stderr \in ignore :
        /\ ~waiting.on
        /\ Len(procs) < MaxProcs
        /\ LET pid == Len(procs) + 1 IN
           /\ procs' = Append(procs, [state |-> "running", code |-> 0,
                                      timeout |-> timeout, hangs |-> hangs,
                                      watchdog |-> "started"])
           /\ env' = SetStreams(env, pid, ignore_stdout, ignore_stderr)
           /\ last' = Ran("Execute", "ok", [pid |-> pid])
        /\ UNCHANGED <<task, sockets, waiting>>

(* Execute with the default options ignore_stdout=False, ignore_stderr=False *)
Execute == ExecuteRun({FALSE})

(* the child process exits by itself *)
ProcessExit(p) ==
    /\ p \in 1..Len(procs)
    /\ procs[p].state = "running"
    /\ ~procs[p].hangs
    /\ \E c \in ExitCodes :
           procs' = [procs EXCEPT ![p].state = "exited", ![p].code = c]
    /\ last' = Ran("(process)", "ok", NoArgs)
    /\ UNCHANGED <<env, task, sockets, waiting>>

(* utils.process_monitor(process, timeout): once the timeout has elapsed,   *)
(* terminate the process if it has not exited; nothing without a timeout.   *)
WatchdogFire_KillsExited(p) ==
    /\ p \in 1..Len(procs)
    /\ procs[p].watchdog = "started"
    /\ IF procs[p].timeout
       THEN \E c \in KillCodes :
                procs' = [procs EXCEPT ![p].state = "exited", ![p].code = c,
                                       ![p].watchdog = "done"]
       ELSE procs' = [procs EXCEPT ![p].watchdog = "done"]
    /\ last' = Ran("(watchdog)", "ok", NoArgs)
    /\ UNCHANGED <<env, task, sockets, waiting>>

WatchdogFire_KillsCurrent(p) ==
    /\ p \in 1..Len(procs)
    /\ procs[p].watchdog = "started"
    /\ Has(env, "PROCESS")
    /\ LET cur == env["PROCESS"].process IN
       IF procs[p].timeout /\ procs[cur].state = "running"
       THEN \E c \in KillCodes :
                procs' = [procs EXCEPT ![cur].state = "exited", ![cur].code = c,
                                       ![p].watchdog = "done"]
       ELSE procs' = [procs EXCEPT ![p].watchdog = "done"]
    /\ last' = Ran("(watchdog)", "ok", NoArgs)
    /\ UNCHANGED <<env, task, sockets, waiting>>

WatchdogFire(p) ==
    /\ p \in 1..Len(procs)
    /\ procs[p].watchdog = "started"
    /\ IF procs[p].timeout /\ procs[p].state = "running"
       THEN \E c \in KillCodes :
                procs' = [procs EXCEPT ![p].state = "exited", ![p].code = c,
                                       ![p].watchdog = "done"]
       ELSE procs' = [procs EXCEPT ![p].watchdog = "done"]
    /\ last' = Ran("(watchdog)", "ok", NoArgs)
    /\ UNCHANGED <<env, task, sockets, waiting>>

(* CheckExitCode.__init__(ok=0): self.ok is a list *)
OkCodes == {0, 0 - 9}
NoOk == [default |-> TRUE]
OkLists ==
    {xs \in SeqsUpTo(OkCodes, Cardinality(OkCodes)) :
        \A i, j \in 1..Len(xs) : i # j => xs[i] # xs[j]}
OkArgs == {NoOk} \cup {PyInt(c) : c \in OkCodes} \cup {PyList(xs) : xs \in OkLists}

SelfOk(ok) ==
    IF ok = NoOk THEN <<0>>
    ELSE IF ~IsList(ok) THEN <<ok.int>> ELSE ok.list

InList(x, xs) == \E i \in 1..Len(xs) : xs[i] = x

(* CheckExitCode.run up to the call of wait() *)
CheckExitCodeCall_NoGuard ==
    \E ok \in OkArgs :
        /\ ~waiting.on
        /\ waiting' = [on |-> TRUE, ok |-> SelfOk(ok), arg |-> ok]
        /\ last' = Ran("CheckExitCode", "blocked", [ok |-> ok, pid |-> 0])
        /\ UNCHANGED <<env, task, procs, sockets>>

CheckExitCodeCall ==
    \E ok \in OkArgs :
        /\ ~waiting.on
        /\ IF ~Has(env, "PROCESS")
           THEN /\ last' = Ran("CheckExitCode", "TaskError", [ok |-> ok, pid |-> 0])
                /\ UNCHANGED waiting
           ELSE /\ waiting' = [on |-> TRUE, ok |-> SelfOk(ok), arg |-> ok]
                /\ last' = Ran("CheckExitCode", "blocked",
                               [ok |-> ok, pid |-> env["PROCESS"].process])
        /\ UNCHANGED <<env, task, procs, sockets>>

(* CheckExitCode.run from the return of wait() *)
CheckExitCodeReturn_NoWait ==
    /\ waiting.on
    /\ Has(env, "PROCESS")
    /\ LET proc == procs[env["PROCESS"].process]
           e == Put(env, "EXIT_CODE", PyInt(proc.code))
       IN  /\ env' = e
           /\ last' = Ran("CheckExitCode",
                          IF ~InList(e["EXIT_CODE"].int, waiting.ok)
                          THEN "TaskError" ELSE "ok",
                          [ok |-> waiting.arg, pid |-> env["PROCESS"].process])
    /\ waiting' = NotWaiting
    /\ UNCHANGED <<task, procs, sockets>>

CheckExitCodeReturn ==
    /\ waiting.on
    /\ Has(env, "PROCESS")
    /\ LET proc == procs[env["PROCESS"].process]
           e == Put(env, "EXIT_CODE", PyInt(proc.code))
       IN  /\ proc.state = "exited"
           /\ env' = e
           /\ last' = Ran("CheckExitCode",
                          IF ~InList(e["EXIT_CODE"].int, waiting.ok)
                          THEN "TaskError" ELSE "ok",
                          [ok |-> waiting.arg, pid |-> env["PROCESS"].process])
    /\ waiting' = NotWaiting
    /\ UNCHANGED <<task, procs, sockets>>

Init ==
    /\ env = EmptyEnv
    /\ last = NotRun
    /\ task = NoTask
    /\ procs = <<>>
    /\ sockets = <<>>
    /\ waiting = NotWaiting

NextProcess ==
    \/ Execute
    \/ CheckExitCodeCall
    \/ CheckExitCodeReturn
    \/ Return
    \/ \E p \in 1..MaxProcs : ProcessExit(p)
    \/ \E p \in 1..MaxProcs : WatchdogFire(p)

SpecProcess == Init /\ [][NextProcess]_vars

(* The same tasks with at most MaxWatched processes spawned, under the      *)
(* scheduling the OS gives: a watchdog thread that can run does run, and    *)
(* wait() returns once the process has exited.                              *)
NextWatched ==
    \/ Len(procs) < MaxWatched /\ Execute
    \/ CheckExitCodeCall
    \/ CheckExitCodeReturn
    \/ Return
    \/ \E p \in 1..MaxProcs : ProcessExit(p)
    \/ \E p \in 1..MaxProcs : WatchdogFire(p)

LiveProcess ==
    /\ Init /\ [][NextWatched]_vars
    /\ WF_vars(CheckExitCodeReturn)
    /\ \A p \in 1..MaxProcs : WF_vars(WatchdogFire(p))

----------------------------------------------------------------------------
(* the return of the last CheckExitCode that waited for a process *)
Returned ==
    /\ last.task = "CheckExitCode"
    /\ last.err \in {"ok", "TaskError"}
    /\ last.args.pid # 0

(* the accepted set named by the argument of CheckExitCode *)
Accepted(ok) ==
    IF ok = NoOk THEN {0}
    ELSE IF IsList(ok) THEN {ok.list[i] : i \in 1..Len(ok.list)}
    ELSE {ok.int}

(* C8: CheckExitCode on a context without PROCESS raises TaskError, waits   *)
(* on nothing and leaves the context (EXIT_CODE included) as it was.        *)
C8_CheckExitCodeNeedsProcess ==
    [][(last'.task = "CheckExitCode" /\ ~waiting.on /\ ~Has(env, "PROCESS"))
        => /\ last'.err = "TaskError"
           /\ ~waiting'.on
           /\ env' = env
           /\ procs' = procs]_vars

C8_Witness ==
    /\ last.task = "CheckExitCode"
    /\ last.err = "TaskError"
    /\ last.args.pid = 0
    /\ ~Has(env, "PROCESS")
    /\ Has(env, "EXIT_CODE")

(* C9: CheckExitCode after Execute returns only once the process held       *)
(* under PROCESS has terminated; EXIT_CODE is then that process's exit      *)
(* code, and TaskError is raised exactly when the code is not accepted      *)
(* ({0} by default, {c} for ok=c, the members of the list for ok=[...]).    *)
C9_CheckExitCodeWaits ==
    Returned =>
        LET proc == procs[last.args.pid] IN
        /\ proc.state = "exited"
        /\ Has(env, "EXIT_CODE")
        /\ env["EXIT_CODE"] = PyInt(proc.code)
        /\ (last.err = "TaskError") <=> (proc.code \notin Accepted(last.args.ok))

C9_Witness ==
    /\ Returned
    /\ last.err = "TaskError"
    /\ IsList(last.args.ok)
    /\ Len(last.args.ok.list) = 2
    /\ procs[last.args.pid].code = 1

(* C10: with a timeout and a program that never exits by itself, the        *)
(* watchdog eventually terminates the process, a CheckExitCode that waits   *)
(* for it eventually returns, and it has then recorded a non-zero code and  *)
(* raised TaskError exactly when that code is not accepted.                 *)
WaitingFor(p) ==
    /\ waiting.on
    /\ Has(env, "PROCESS")
    /\ env["PROCESS"].process = p

Doomed(p) == p \in 1..Len(procs) /\ procs[p].timeout /\ procs[p].hangs

Terminated(p) ==
    p \in 1..Len(procs) /\ procs[p].state = "exited" /\ procs[p].code # 0

C10_WatchdogUnblocks ==
    \A p \in 1..MaxProcs :
        /\ Doomed(p) ~> Terminated(p)
        /\ (Doomed(p) /\ WaitingFor(p)) ~> (Returned /\ last.args.pid = p)
        /\ []((Returned /\ last.args.pid = p /\ Doomed(p)) =>
                 /\ env["EXIT_CODE"].int # 0
                 /\ env["EXIT_CODE"].int \in KillCodes
                 /\ (last.err = "TaskError")
                       <=> (env["EXIT_CODE"].int \notin Accepted(last.args.ok)))

C10_Witness ==
    /\ Returned
    /\ Doomed(last.args.pid)
    /\ last.err = "TaskError"
    /\ env["EXIT_CODE"].int \in KillCodes

----------------------------------------------------------------------------
(* Sockets.  sockets[sid] is the socket created by the sid-th successful    *)
(* Connect: whether it is open, the bytes the peer has sent and that have   *)
(* not been read yet, whether the peer has closed its side, and whether     *)
(* messages were sent over it (close discards the unread bytes).            *)

Socket(sid) == [socket |-> sid]
SocketFile(sid) == [makefile |-> sid]
StringIO(buf, pos) == [buf |-> buf, pos |-> pos]
IsStringIO(v) == DOMAIN v = {"buf", "pos"}

NL == "\n"
Chars == {"a", NL}

(* StringIO.tell, seek(0, os.SEEK_END), seek(pos), write(s) *)
Tell(io) == io.pos
SeekEnd(io) == [io EXCEPT !.pos = Len(io.buf)]
Seek(io, pos) == [io EXCEPT !.pos = IF pos < 0 THEN 0 ELSE pos]
Write(io, s) ==
    IF Len(s) = 0 THEN io
    ELSE StringIO(SubSeq(io.buf, 1, io.pos) \o s
                      \o SubSeq(io.buf, io.pos + Len(s) + 1, Len(io.buf)),
                  io.pos + Len(s))

(* the index of the first newline of s from position i on, 0 if none *)
RECURSIVE FirstNL(_, _)
FirstNL(s, i) ==
    IF i > Len(s) THEN 0
    ELSE IF s[i] = NL THEN i ELSE FirstNL(s, i + 1)

CountNL(s) == Cardinality({i \in 1..Len(s) : s[i] = NL})

(* file.readline() on the socket: the bytes up to and including the first  *)
(* newline; at end of stream (peer closed) whatever is left, maybe nothing *)
SockReadLine(inbox) ==
    LET k == FirstNL(inbox, 1) IN
    IF k = 0 THEN [line |-> inbox, rest |-> <<>>]
    ELSE [line |-> SubSeq(inbox, 1, k), rest |-> SubSeq(inbox, k + 1, Len(inbox))]

(* readline returns once a whole line has arrived or the peer has closed *)
CanReadLines(inbox, closed, n) == closed \/ CountNL(inbox) >= n

(* the loop  for i in range(numlines): stdout.write(s.readline()) *)
RECURSIVE ReceiveLoop(_, _, _)
ReceiveLoop(io, inbox, n) ==
    IF n = 0 THEN [io |-> io, inbox |-> inbox]
    ELSE LET r == SockReadLine(inbox) IN
         ReceiveLoop(Write(io, r.line), r.rest, n - 1)

(* Receive.run from stdout.tell() to stdout.seek(pos) *)
ReceiveLines_NoSeekBack(stdout, inbox, n) ==
    ReceiveLoop(SeekEnd(stdout), inbox, n)

ReceiveLines_AtCursor(stdout, inbox, n) ==
    LET pos == Tell(stdout)
        r == ReceiveLoop(stdout, inbox, n)
    IN  [io |-> Seek(r.io, pos), inbox |-> r.inbox]

ReceiveLines(stdout, inbox, n) ==
    LET pos == Tell(stdout)
        r == ReceiveLoop(SeekEnd(stdout), inbox, n)
    IN  [io |-> Seek(r.io, pos), inbox |-> r.inbox]

(* Connect.run *)
Connect_NoGuard ==
    \E connected \in BOOLEAN :
        /\ ~waiting.on
        /\ IF ~connected
           THEN /\ last' = Ran("Connect", "socket.error", NoArgs)
                /\ UNCHANGED <<env, sockets>>
           ELSE /\ Len(sockets) < MaxSockets
                /\ LET sid == Len(sockets) + 1 IN
                   /\ sockets' = Append(sockets, [open |-> TRUE, inbox |-> <<>>,
                                                  peerClosed |-> FALSE, sent |-> FALSE])
                   /\ env' = Put(Put(Put(env, "SOCKET", Socket(sid)),
                                     "SOCKET_FILE", SocketFile(sid)),
                                 "STDOUT", StringIO(<<>>, 0))
                /\ last' = Ran("Connect", "ok", NoArgs)
        /\ UNCHANGED <<task, procs, waiting>>

Connect_KeepsStdout ==
    \E connected \in BOOLEAN :
        /\ ~waiting.on
        /\ IF Has(env, "SOCKET")
           THEN /\ last' = Ran("Connect", "TaskError", NoArgs)
                /\ UNCHANGED <<env, sockets>>
           ELSE IF ~connected
           THEN /\ last' = Ran("Connect", "socket.error", NoArgs)
                /\ UNCHANGED <<env, sockets>>
           ELSE /\ Len(sockets) < MaxSockets
                /\ LET sid == Len(sockets) + 1
                       e == Put(Put(env, "SOCKET", Socket(sid)),
                                "SOCKET_FILE", SocketFile(sid))
                   IN
                   /\ sockets' = Append(sockets, [open |-> TRUE, inbox |-> <<>>,
                                                  peerClosed |-> FALSE, sent |-> FALSE])
                   /\ env' = IF Has(env, "STDOUT") THEN e
                             ELSE Put(e, "STDOUT", StringIO(<<>>, 0))
                /\ last' = Ran("Connect", "ok", NoArgs)
        /\ UNCHANGED <<task, procs, waiting>>

Connect ==
    \E connected \in BOOLEAN :
        /\ ~waiting.on
        /\ IF Has(env, "SOCKET")
           THEN /\ last' = Ran("Connect", "TaskError", NoArgs)
                /\ UNCHANGED <<env, sockets>>
           ELSE IF ~connected
           THEN /\ last' = Ran("Connect", "socket.error", NoArgs)
                /\ UNCHANGED <<env, sockets>>
           ELSE /\ Len(sockets) < MaxSockets
                /\ LET sid == Len(sockets) + 1 IN
                   /\ env' = Put(Put(Put(env, "SOCKET", Socket(sid)),
                                     "SOCKET_FILE", SocketFile(sid)),
                                 "STDOUT", StringIO(<<>>, 0))
                   /\ sockets' =
                         Collect(Append(sockets, [open |-> TRUE, inbox |-> <<>>,
                                                  peerClosed |-> FALSE, sent |-> FALSE]),
                                 env')
                /\ last' = Ran("Connect", "ok", NoArgs)
        /\ UNCHANGED <<task, procs, waiting>>

(* Send.run *)
Send ==
    /\ ~waiting.on
    /\ IF ~Has(env, "SOCKET")
       THEN /\ last' = Ran("Send", "TaskError", NoArgs)
            /\ UNCHANGED sockets
       ELSE LET sid == env["SOCKET"].socket IN
            /\ sockets' = [sockets EXCEPT ![sid].sent = TRUE]
            /\ last' = Ran("Send", "ok", NoArgs)
    /\ UNCHANGED <<env, task, procs, waiting>>

(* Receive.run; tell() on the pipe of a process raises IOError *)
Receive ==
    \E n \in 0..MaxLines :
        /\ ~waiting.on
        /\ IF ~Has(env, "SOCKET")
           THEN /\ last' = Ran("Receive", "TaskError", [n |-> n])
                /\ UNCHANGED <<env, sockets>>
           ELSE IF ~Has(env, "STDOUT") \/ ~Has(env, "SOCKET_FILE")
           THEN /\ last' = Ran("Receive", "KeyError", [n |-> n])
                /\ UNCHANGED <<env, sockets>>
           ELSE IF ~IsStringIO(env["STDOUT"])
           THEN /\ last' = Ran("Receive", "IOError", [n |-> n])
                /\ UNCHANGED <<env, sockets>>
           ELSE LET sid == env["SOCKET_FILE"].makefile
                    r == ReceiveLines(env["STDOUT"], sockets[sid].inbox, n)
                IN  /\ CanReadLines(sockets[sid].inbox, sockets[sid].peerClosed, n)
                    /\ Len(r.io.buf) <= MaxBuf
                    /\ env' = Put(env, "STDOUT", r.io)
                    /\ sockets' = [sockets EXCEPT ![sid].inbox = r.inbox]
                    /\ last' = Ran("Receive", "ok", [n |-> n])
        /\ UNCHANGED <<task, procs, waiting>>

(* Disconnect.run *)
Disconnect_NoGuard ==
    /\ ~waiting.on
    /\ IF ~Has(env, "SOCKET")
       THEN /\ last' = Ran("Disconnect", "KeyError", [open |-> FALSE])
            /\ UNCHANGED <<env, sockets>>
       ELSE LET sid == env["SOCKET"].socket IN
            /\ sockets' = [sockets EXCEPT ![sid].open = FALSE, ![sid].inbox = <<>>]
            /\ env' = Del(env, "SOCKET")
            /\ last' = Ran("Disconnect", "ok", [open |-> TRUE])
    /\ UNCHANGED <<task, procs, waiting>>

Disconnect_KeepsKey ==
    /\ ~waiting.on
    /\ IF ~Has(env, "SOCKET")
       THEN /\ last' = Ran("Disconnect", "ok", [open |-> FALSE])
            /\ UNCHANGED <<env, sockets>>
       ELSE LET sid == env["SOCKET"].socket IN
            /\ sockets' = [sockets EXCEPT ![sid].open = FALSE, ![sid].inbox = <<>>]
            /\ env' = env
            /\ last' = Ran("Disconnect", "ok", [open |-> TRUE])
    /\ UNCHANGED <<task, procs, waiting>>

Disconnect_DropsChannel ==
    /\ ~waiting.on
    /\ IF ~Has(env, "SOCKET")
       THEN /\ last' = Ran("Disconnect", "ok", [open |-> FALSE])
            /\ UNCHANGED <<env, sockets>>
       ELSE LET sid == env["SOCKET"].socket IN
            /\ sockets' = [sockets EXCEPT ![sid].open = FALSE, ![sid].inbox = <<>>]
            /\ env' = Del(Del(Del(env, "SOCKET"), "SOCKET_FILE"), "STDOUT")
            /\ last' = Ran("Disconnect", "ok", [open |-> TRUE])
    /\ UNCHANGED <<task, procs, waiting>>

Disconnect ==
    /\ ~waiting.on
    /\ IF ~Has(env, "SOCKET")
       THEN /\ last' = Ran("Disconnect", "ok", [open |-> FALSE])
            /\ UNCHANGED <<env, sockets>>
       ELSE LET sid == env["SOCKET"].socket IN
            /\ sockets' = [sockets EXCEPT ![sid].open = FALSE, ![sid].inbox = <<>>]
            /\ env' = Del(env, "SOCKET")
            /\ last' = Ran("Disconnect", "ok", [open |-> TRUE])
    /\ UNCHANGED <<task, procs, waiting>>

(* StringIO.readline(): from the cursor to the next newline or to the end *)
ReadLine(io) ==
    LET k == FirstNL(io.buf, io.pos + 1)
        end == IF k = 0 THEN Len(io.buf) ELSE k
    IN  [line |-> SubSeq(io.buf, io.pos + 1, end), io |-> [io EXCEPT !.pos = end]]

(* line.split(): the runs of non-whitespace characters *)
RECURSIVE Split(_, _, _)
Split(line, i, word) ==
    IF i > Len(line) THEN IF word = <<>> THEN <<>> ELSE <<word>>
    ELSE IF line[i] = NL
         THEN (IF word = <<>> THEN <<>> ELSE <<word>>) \o Split(line, i + 1, <<>>)
         ELSE Split(line, i + 1, Append(word, line[i]))

(* ParseLine.run with name="output", delimiters=None, type=str, on the     *)
(* capture buffer                                                           *)
ParseLine ==
    /\ ~waiting.on
    /\ IF ~Has(env, "STDOUT")
       THEN /\ last' = Ran("ParseLine", "KeyError", NoArgs)
            /\ UNCHANGED env
       ELSE /\ IsStringIO(env["STDOUT"])
            /\ LET r == ReadLine(env["STDOUT"])
                   values == MapSeq(PyStr, Split(r.line, 1, <<>>))
               IN  env' = Put(Put(env, "STDOUT", r.io), "output", PyList(values))
            /\ last' = Ran("ParseLine", "ok", NoArgs)
    /\ UNCHANGED <<task, procs, sockets, waiting>>

(* the peer sends a byte, or closes its side of the connection *)
PeerSend(sid) ==
    /\ sid \in 1..Len(sockets)
    /\ sockets[sid].open
    /\ ~sockets[sid].peerClosed
    /\ Len(sockets[sid].inbox) < MaxInbox
    /\ \E c \in Chars : sockets' = [sockets EXCEPT ![sid].inbox = Append(@, c)]
    /\ last' = Ran("(peer)", "ok", NoArgs)
    /\ UNCHANGED <<env, task, procs, waiting>>

PeerClose(sid) ==
    /\ sid \in 1..Len(sockets)
    /\ sockets[sid].open
    /\ ~sockets[sid].peerClosed
    /\ sockets' = [sockets EXCEPT ![sid].peerClosed = TRUE]
    /\ last' = Ran("(peer)", "ok", NoArgs)
    /\ UNCHANGED <<env, task, procs, waiting>>

NextChannel ==
    \/ Connect
    \/ Send
    \/ Receive
    \/ Disconnect
    \/ ParseLine
    \/ \E sid \in 1..MaxSockets : PeerSend(sid)
    \/ \E sid \in 1..MaxSockets : PeerClose(sid)

SpecChannel == Init /\ [][NextChannel]_vars

----------------------------------------------------------------------------
(* a run of Receive that returned *)
Received == last'.task = "Receive" /\ last'.err = "ok"

(* C4: Receive leaves the read cursor of the capture buffer where it was,   *)
(* for every cursor position and every number of lines.                     *)
C4_ReceiveKeepsCursor ==
    [][Received => env'["STDOUT"].pos = env["STDOUT"].pos]_vars

(* two lines received with the cursor in the middle of the buffer *)
C4_Witness ==
    /\ last.task = "Receive"
    /\ last.err = "ok"
    /\ last.args.n = 2
    /\ env["STDOUT"].pos > 0
    /\ env["STDOUT"].pos < Len(env["STDOUT"].buf)
    /\ CountNL(env["STDOUT"].buf) = 3

(* C5: a Receive(numlines=n) that returns has appended exactly n            *)
(* newline-terminated lines, in arrival order, after the previous contents  *)
(* of the buffer, also when the peer closes before n lines have arrived.    *)
C5_ReceiveAppendsLines ==
    [][Received =>
        LET old == env["STDOUT"].buf
            new == env'["STDOUT"].buf
            sid == env["SOCKET_FILE"].makefile
            got == SubSeq(new, Len(old) + 1, Len(new))
        IN  /\ Len(new) >= Len(old)
            /\ SubSeq(new, 1, Len(old)) = old
            /\ sockets[sid].inbox = got \o sockets'[sid].inbox
            /\ CountNL(got) = last'.args.n
            /\ got # <<>> => got[Len(got)] = NL]_vars

(* C6: Disconnect never raises; without SOCKET it changes nothing, with a   *)
(* channel open it closes the socket and removes SOCKET, so a second        *)
(* Disconnect leaves the context of the first.                              *)
C6_DisconnectIdempotent ==
    [][last'.task = "Disconnect" =>
        /\ last'.err = "ok"
        /\ ~Has(env', "SOCKET")
        /\ IF Has(env, "SOCKET")
           THEN /\ env' = Del(env, "SOCKET")
                /\ ~sockets'[env["SOCKET"].socket].open
           ELSE env' = env /\ sockets' = sockets]_vars

(* a Disconnect that found the channel already closed *)
C6_Witness ==
    /\ last.task = "Disconnect"
    /\ last.err = "ok"
    /\ ~last.args.open
    /\ Len(sockets) > 0
    /\ ~sockets[Len(sockets)].open
    /\ Has(env, "SOCKET_FILE")

(* C7: Connect on a context that holds SOCKET raises TaskError, opens no    *)
(* socket and leaves SOCKET, SOCKET_FILE and the capture buffer as they     *)
(* were; the first channel stays open.                                      *)
C7_ConnectTwiceFails ==
    [][(last'.task = "Connect" /\ Has(env, "SOCKET")) =>
        /\ last'.err = "TaskError"
        /\ env' = env
        /\ sockets' = sockets
        /\ sockets'[env'["SOCKET"].socket].open]_vars

(* the second Connect failed on a channel whose buffer is partly read *)
C7_Witness ==
    /\ last.task = "Connect"
    /\ last.err = "TaskError"
    /\ Has(env, "SOCKET")
    /\ sockets[env["SOCKET"].socket].open
    /\ env["STDOUT"].pos > 0
    /\ env["STDOUT"].pos < Len(env["STDOUT"].buf)

----------------------------------------------------------------------------
ChannelOpen == \E sid \in 1..Len(sockets) : sockets[sid].open

C12_SendReceiveNeedChannel ==
    [][last'.task \in {"Send", "Receive"} =>
        /\ last'.err = "ok" => ChannelOpen
        /\ ~ChannelOpen =>
              /\ last'.err = "TaskError"
              /\ sockets' = sockets
              /\ env' = env]_vars

(* a Receive refused after Disconnect, the buffer of the closed channel     *)
(* still holding a line                                                     *)
C12_Witness ==
    /\ last.task = "Receive"
    /\ last.err = "TaskError"
    /\ last.args.n > 0
    /\ sockets # <<>>
    /\ ~ChannelOpen
    /\ Has(env, "STDOUT")
    /\ CountNL(env["STDOUT"].buf) > 0

----------------------------------------------------------------------------
(* A context used for a process and for channels: Execute, then Connect,    *)
(* Receive and Disconnect, in any order.                                    *)
NextSession ==
    \/ Len(procs) < MaxWatched /\ Execute
    \/ Connect
    \/ Receive
    \/ Disconnect
    \/ \E sid \in 1..MaxSockets : PeerSend(sid)
    \/ \E sid \in 1..MaxSockets : PeerClose(sid)

SpecSession == Init /\ [][NextSession]_vars

ChannelKeys == {"SOCKET", "SOCKET_FILE", "STDOUT"}

(* C13: a successful Connect stores the new socket under SOCKET, the line   *)
(* reader of that socket under SOCKET_FILE and an empty capture buffer with *)
(* the cursor at 0 under STDOUT, whatever STDOUT held before (the pipe of a *)
(* process, or the buffer of an earlier channel with its unread lines); no  *)
(* other key changes.                                                       *)
C13_ConnectStoresChannel ==
    [][(last'.task = "Connect" /\ last'.err = "ok") =>
        LET sid == Len(sockets) + 1 IN
        /\ Len(sockets') = sid
        /\ sockets'[sid].open
        /\ env'["SOCKET"] = Socket(sid)
        /\ env'["SOCKET_FILE"] = SocketFile(sid)
        /\ env'["STDOUT"] = StringIO(<<>>, 0)
        /\ DOMAIN env' = DOMAIN env \cup ChannelKeys
        /\ \A k \in DOMAIN env \ ChannelKeys : env'[k] = env[k]]_vars

(* the second channel of a context that also holds a process: the first     *)
(* channel was disconnected and Execute had put its pipe under STDOUT       *)
C13_Witness ==
    /\ last.task = "Connect"
    /\ last.err = "ok"
    /\ Len(sockets) = 2
    /\ ~sockets[1].open
    /\ Has(env, "PROCESS")
    /\ env["STDERR"] = Pipe(env["PROCESS"].process, "stderr")
    /\ env["STDOUT"] = StringIO(<<>>, 0)

----------------------------------------------------------------------------
(* Return on any context: the context and the allow-list are drawn from     *)
(* the contexts over ReturnKeys and the lists over ReturnNames ("y" names a *)
(* key no context holds).                                                   *)
ReturnKeys == {"EXIT_CODE", "x", "STDOUT"}
ReturnNames == ReturnKeys \cup {"y"}
ReturnValues(k) ==
    IF k = "EXIT_CODE" THEN {PyInt(c) : c \in ExitCodes}
    ELSE IF k = "x" THEN {Old, PyList(<<Old>>)}
    ELSE {Pipe(1, "stdout"), StringIO(<<>>, 0)}
ReturnEnvs ==
    UNION {{e \in [keys -> UNION {ReturnValues(k) : k \in ReturnKeys}] :
               \A k \in keys : e[k] \in ReturnValues(k)} : keys \in SUBSET ReturnKeys}

InitReturn ==
    /\ env \in ReturnEnvs
    /\ last = NotRun
    /\ task = NoTask
    /\ procs = <<>>
    /\ sockets = <<>>
    /\ waiting = NotWaiting

NextReturn == ReturnRun(SUBSET ReturnNames)

SpecReturn == InitReturn /\ [][NextReturn]_vars

(* C14: after Return(f1..fk) the keys of the context are exactly the keys   *)
(* that were present and are among f1..fk; each kept key has the value it   *)
(* had, and no allow-listed name that was absent is created.                *)
C14_ReturnKeepsAllowed ==
    [][last'.task = "Return" =>
        LET fields == last'.args.fields IN
        /\ DOMAIN env' = DOMAIN env \cap fields
        /\ \A k \in DOMAIN env' : env'[k] = env[k]]_vars

(* a Return that dropped a key, kept another and was given the name of an   *)
(* absent key                                                               *)
C14_Witness ==
    /\ last.task = "Return"
    /\ last.args.fields = {"x", "y", "EXIT_CODE"}
    /\ DOMAIN env = {"x"}
    /\ env["x"] = PyList(<<Old>>)

----------------------------------------------------------------------------
(* the conversion function a stored value, or every element of a stored     *)
(* list, came out of                                                        *)
IsInt(v) == DOMAIN v = {"int"}
ConvertedBy(v, c) ==
    IF IsList(v)
    THEN \A n \in 1..Len(v.list) : IsInt(v.list[n]) <=> (c = "int")
    ELSE IsInt(v) <=> (c = "int")

(* C15: in a task with several bindings, the values written to a            *)
(* destination field are converted with the conversion function of the      *)
(* binding that names the field, for every binding and not only the last;   *)
(* in ParseXML, ParseJSON and ParseCSV.                                     *)
C15_OwnConversion ==
    HasRun =>
        \A i \in 1..Len(task.fields) :
            LET b == task.fields[i] IN
            (OwnField(task.fields, i) /\ Len(Matches(i)) > 0) =>
                Has(env, b.key) /\ ConvertedBy(env[b.key], b.conversion)

----------------------------------------------------------------------------
(* The tasks that read a reserved key, run on a context in which each       *)
(* reserved key is present or absent.  What a run does outside the context  *)
(* (files, pipes, the console) is recorded as the effect of the run.        *)

ReservedKeys ==
    {"WORK_DIR", "PROCESS", "STDIN", "STDOUT", "STDERR", "SOCKET", "SOCKET_FILE"}

WorkDir == PyStr("/tmp/work")

Done(effect, given) == [effect |-> effect, given |-> given]
NoEffect == "none"

(* DeleteTempDir.run *)
DeleteTempDir ==
    /\ ~waiting.on
    /\ IF ~Has(env, "WORK_DIR")
       THEN last' = Ran("DeleteTempDir", "TaskError", Done(NoEffect, FALSE))
       ELSE last' = Ran("DeleteTempDir", "ok", Done("remove", FALSE))
    /\ UNCHANGED <<env, task, procs, sockets, waiting>>

(* Copy.run, with and without toDir *)
Copy ==
    \E toDir \in BOOLEAN :
        /\ ~waiting.on
        /\ IF ~toDir /\ ~Has(env, "WORK_DIR")
           THEN last' = Ran("Copy", "TaskError", Done(NoEffect, toDir))
           ELSE last' = Ran("Copy", "ok", Done("copytree", toDir))
        /\ UNCHANGED <<env, task, procs, sockets, waiting>>

(* Substitute.run, with and without folder *)
Substitute ==
    \E folder \in BOOLEAN :
        /\ ~waiting.on
        /\ IF ~folder /\ ~Has(env, "WORK_DIR")
           THEN last' = Ran("Substitute", "TaskError", Done(NoEffect, folder))
           ELSE last' = Ran("Substitute", "ok", Done("substitutetree", folder))
        /\ UNCHANGED <<env, task, procs, sockets, waiting>>

(* WriteInput.run *)
WriteInput ==
    /\ ~waiting.on
    /\ IF ~Has(env, "STDIN")
       THEN last' = Ran("WriteInput", "TaskError", Done(NoEffect, FALSE))
       ELSE last' = Ran("WriteInput", "ok", Done("write", FALSE))
    /\ UNCHANGED <<env, task, procs, sockets, waiting>>

(* WriteFile.run: env["WORK_DIR"] on a dict without the key *)
WriteFile ==
    /\ ~waiting.on
    /\ IF ~Has(env, "WORK_DIR")
       THEN last' = Ran("WriteFile", "KeyError", Done(NoEffect, FALSE))
       ELSE last' = Ran("WriteFile", "ok", Done("write", FALSE))
    /\ UNCHANGED <<env, task, procs, sockets, waiting>>

(* ParseOutput.run, with and without file; the callback returns a dict *)
CallbackResults == {EmptyEnv, Put(EmptyEnv, "output", Old)}

ParseOutput ==
    \E file \in BOOLEAN, results \in CallbackResults :
        /\ ~waiting.on
        /\ IF ~file /\ ~Has(env, "STDOUT")
           THEN /\ last' = Ran("ParseOutput", "KeyError", Done(NoEffect, file))
                /\ UNCHANGED env
           ELSE /\ env' = [k \in (DOMAIN env) \cup (DOMAIN results) |->
                              IF k \in DOMAIN results THEN results[k] ELSE env[k]]
                /\ last' = Ran("ParseOutput", "ok", Done("callback", file))
        /\ UNCHANGED <<task, procs, sockets, waiting>>

(* PrintStderr.run: read() returns at end of file, once the process that   *)
(* holds the pipe has exited                                                *)
PrintStderr ==
    /\ ~waiting.on
    /\ IF ~Has(env, "STDERR")
       THEN last' = Ran("PrintStderr", "KeyError", Done(NoEffect, FALSE))
       ELSE /\ procs[env["STDERR"].of].state = "exited"
            /\ last' = Ran("PrintStderr", "ok", Done("print", FALSE))
    /\ UNCHANGED <<env, task, procs, sockets, waiting>>

(* The context left by SetWorkDir, Execute, Connect and a Return that kept  *)
(* the keys `present`; the process is running or has exited.                *)
ReservedValue(k) ==
    CASE k = "WORK_DIR" -> WorkDir
      [] k = "PROCESS" -> Process(1)
      [] k = "STDIN" -> Pipe(1, "stdin")
      [] k = "STDOUT" -> StringIO(<<>>, 0)
      [] k = "STDERR" -> Pipe(1, "stderr")
      [] k = "SOCKET" -> Socket(1)
      [] k = "SOCKET_FILE" -> SocketFile(1)

InitReaders ==
    /\ \E present \in SUBSET ReservedKeys :
           env = [k \in present |-> ReservedValue(k)]
    /\ \E state \in {"running", "exited"} :
           procs = <<[state |-> state, code |-> 0, timeout |-> FALSE,
                      hangs |-> FALSE, watchdog |-> "done"]>>
    /\ sockets = <<[open |-> TRUE, inbox |-> <<>>, peerClosed |-> FALSE,
                    sent |-> FALSE]>>
    /\ last = NotRun
    /\ task = NoTask
    /\ waiting = NotWaiting

NextReaders ==
    \/ DeleteTempDir
    \/ Copy
    \/ Substitute
    \/ WriteInput
    \/ WriteFile
    \/ ParseOutput
    \/ PrintStderr
    \/ CheckExitCodeCall
    \/ CheckExitCodeReturn
    \/ Send
    \/ Receive
    \/ ParseLine

SpecReaders == InitReaders /\ [][NextReaders]_vars

(* the reserved keys a run reads from the context *)
Reads(l) ==
    CASE l.task \in {"DeleteTempDir", "WriteFile"} -> {"WORK_DIR"}
      [] l.task \in {"Copy", "Substitute"} ->
             IF l.args.given THEN {} ELSE {"WORK_DIR"}
      [] l.task = "CheckExitCode" -> {"PROCESS"}
      [] l.task = "WriteInput" -> {"STDIN"}
      [] l.task = "ParseLine" -> {"STDOUT"}
      [] l.task = "ParseOutput" -> IF l.args.given THEN {} ELSE {"STDOUT"}
      [] l.task = "PrintStderr" -> {"STDERR"}
      [] l.task = "Send" -> {"SOCKET"}
      [] l.task = "Receive" -> {"SOCKET", "SOCKET_FILE", "STDOUT"}
      [] OTHER -> {}

Effect(l) == IF "effect" \in DOMAIN l.args THEN l.args.effect ELSE NoEffect

(* C16: a task run on a context that lacks a reserved key it reads raises   *)
(* TaskError, with no effect and the context unchanged.  The tasks are      *)
(* DeleteTempDir, Copy, Substitute, CheckExitCode, WriteInput, Send,        *)
(* WriteFile, ParseLine, ParseOutput, PrintStderr and Receive.              *)
C16_MissingKeyIsTaskError ==
    [][(Reads(last') \ DOMAIN env # {}) =>
        /\ last'.err = "TaskError"
        /\ Effect(last') = NoEffect
        /\ env' = env
        /\ procs' = procs
        /\ sockets' = sockets
        /\ ~waiting'.on]_vars

----------------------------------------------------------------------------
(* One channel with its readers: Connect, then Receive and ParseLine in any *)
(* order while the peer sends and closes.                                   *)
NextReader ==
    \/ Connect
    \/ Receive
    \/ ParseLine
    \/ \E sid \in 1..MaxSockets : PeerSend(sid)
    \/ \E sid \in 1..MaxSockets : PeerClose(sid)

SpecReader == Init /\ [][NextReader]_vars

(* the lines of a buffer: each ends with its newline, except a last line    *)
(* cut by the end of the stream                                             *)
RECURSIVE LinesFrom(_, _)
LinesFrom(s, i) ==
    IF i > Len(s) THEN <<>>
    ELSE LET k == FirstNL(s, i) IN
         IF k = 0 THEN <<SubSeq(s, i, Len(s))>>
         ELSE <<SubSeq(s, i, k)>> \o LinesFrom(s, k + 1)

(* the number of lines the readers have read *)
LinesRead(io) == Len(LinesFrom(SubSeq(io.buf, 1, io.pos), 1))

(* C17: on one channel, under every interleaving of Receive and ParseLine,  *)
(* the buffer is the received bytes in arrival order (Receive appends and   *)
(* keeps the cursor), and a ParseLine that has read k-1 lines reads the     *)
(* k-th line of the buffer, whole, and moves the cursor just past it; with  *)
(* no unread line it reads nothing and leaves the cursor, so that the line  *)
(* a later Receive appends is the next one read.                            *)
C17_ReadersSeeLinesInOrder ==
    /\ [][Received =>
            LET old == env["STDOUT"]
                new == env'["STDOUT"]
                sid == env["SOCKET_FILE"].makefile
            IN  /\ new.pos = old.pos
                /\ Len(new.buf) >= Len(old.buf)
                /\ SubSeq(new.buf, 1, Len(old.buf)) = old.buf
                /\ sockets[sid].inbox =
                       SubSeq(new.buf, Len(old.buf) + 1, Len(new.buf))
                           \o sockets'[sid].inbox]_vars
    /\ [][(last'.task = "ParseLine" /\ last'.err = "ok") =>
            LET old == env["STDOUT"]
                new == env'["STDOUT"]
                lines == LinesFrom(old.buf, 1)
                k == LinesRead(old) + 1
            IN  /\ new.buf = old.buf
                /\ IF old.pos = Len(old.buf)
                   THEN /\ new.pos = old.pos
                        /\ env'["output"] = PyList(<<>>)
                   ELSE /\ k <= Len(lines)
                        /\ SubSeq(old.buf, old.pos + 1, new.pos) = lines[k]
                        /\ LinesRead(new) = k
                        /\ env'["output"] =
                              PyList(MapSeq(PyStr, Split(lines[k], 1, <<>>)))]_vars

(* the second line has been read, the cursor is at the end of the buffer   *)
(* and a third line is waiting in the socket                                *)
C17_Witness ==
    /\ last.task = "ParseLine"
    /\ last.err = "ok"
    /\ Has(env, "SOCKET")
    /\ LinesRead(env["STDOUT"]) = 2
    /\ env["STDOUT"].pos = Len(env["STDOUT"].buf)
    /\ env["output"] = PyList(<<PyStr(<<"a">>)>>)
    /\ CountNL(sockets[env["SOCKET"].socket].inbox) = 1

----------------------------------------------------------------------------
(* the last binding of the task that names its destination field *)
LastForField(fields, i) ==
    \A j \in (i + 1)..Len(fields) : fields[j].key # fields[i].key

(* the texts the query of the i-th binding yields, those of the list when   *)
(* its one match is list-valued                                             *)
Texts(i) ==
    LET m == Matches(i) IN
    IF task.kind = "ParseJSON" /\ Len(m) = 1 /\ IsJList(m[1])
    THEN m[1].elems
    ELSE MapSeq(Text, m)

(* the values a field holds: the elements of a list, or the one scalar *)
Elems(v) == IF IsList(v) THEN v.list ELSE <<v>>

(* C18: bindings are evaluated independently.  The field named by several   *)
(* bindings of a task ends with the result of the last of them alone: its   *)
(* values are the conversions of the matches of that binding's query, in    *)
(* order, and the matches of the earlier bindings are not merged in; in     *)
(* ParseXML, ParseJSON and ParseCSV.                                        *)
C18_LaterBindingAlone ==
    HasRun =>
        \A i \in 1..Len(task.fields) :
            LET b == task.fields[i]
                t == Texts(i)
            IN  (LastForField(task.fields, i) /\ Len(Matches(i)) > 0) =>
                    /\ Has(env, b.key)
                    /\ Len(Elems(env[b.key])) = Len(t)
                    /\ \A n \in 1..Len(t) :
                           Elems(env[b.key])[n] \in {Conv(c, t[n]) : c \in Conversions}

----------------------------------------------------------------------------
(* C19: a process that has exited by itself is out of the watchdog's reach. *)
(* A watchdog that fires after the exit, before, while or after the main    *)
(* flow waits in CheckExitCode, changes neither the state nor the return    *)
(* code of the process and nothing of the main flow; CheckExitCode then     *)
(* records the process's own exit code and raises TaskError only when that  *)
(* code is not accepted.                                                    *)
ExitedByItself(p) ==
    p \in 1..Len(procs) /\ procs[p].state = "exited" /\ procs[p].code \in ExitCodes

C19_WatchdogAfterExitIsNoOp ==
    /\ [][last'.task = "(watchdog)" =>
            /\ env' = env
            /\ waiting' = waiting
            /\ \A p \in 1..Len(procs) :
                   procs[p].state = "exited" =>
                       /\ procs'[p].state = "exited"
                       /\ procs'[p].code = procs[p].code]_vars
    /\ [](\A p \in 1..Len(procs) :
             (Returned /\ last.args.pid = p /\ ExitedByItself(p)) =>
                 /\ env["EXIT_CODE"] = PyInt(procs[p].code)
                 /\ last.err = IF procs[p].code \in Accepted(last.args.ok)
                               THEN "ok" ELSE "TaskError")

(* CheckExitCode has returned the exit code 1 of a timed process whose      *)
(* watchdog had fired after the exit                                        *)
C19_Witness ==
    /\ Returned
    /\ procs[last.args.pid].timeout
    /\ procs[last.args.pid].watchdog = "done"
    /\ procs[last.args.pid].code = 1
    /\ env["EXIT_CODE"] = PyInt(1)
    /\ last.err = "TaskError"

----------------------------------------------------------------------------
(* C20: a watchdog acts on nothing but the process of the Execute that      *)
(* started it.  A step of the watchdog of process p leaves the context, the *)
(* main flow and every other process as they were, also when a later        *)
(* Execute has put another process under PROCESS; it terminates p only if p *)
(* was given a timeout and is still running.                                *)
C20_WatchdogOwnsItsProcess ==
    [][last'.task = "(watchdog)" =>
        /\ env' = env
        /\ waiting' = waiting
        /\ sockets' = sockets
        /\ \E p \in 1..Len(procs) :
               /\ procs[p].watchdog = "started"
               /\ procs'[p].watchdog = "done"
               /\ \A q \in 1..Len(procs) : q # p => procs'[q] = procs[q]
               /\ procs'[p].state # procs[p].state =>
                      /\ procs[p].timeout
                      /\ procs[p].state = "running"
                      /\ procs'[p].state = "exited"]_vars

(* the watchdog of the first process has terminated it after a second       *)
(* Execute had replaced PROCESS; the second process is still running        *)
C20_Witness ==
    /\ last.task = "(watchdog)"
    /\ Len(procs) = 2
    /\ env["PROCESS"] = Process(2)
    /\ procs[1].watchdog = "done"
    /\ procs[1].state = "exited"
    /\ procs[1].code \in KillCodes
    /\ procs[2].state = "running"
    /\ procs[2].watchdog = "started"

----------------------------------------------------------------------------
(* Execute with every combination of ignore_stdout and ignore_stderr, run   *)
(* repeatedly on one context.                                               *)
ExecuteAny == ExecuteRun(BOOLEAN)

NextStreams == ExecuteAny

SpecStreams == Init /\ [][NextStreams]_vars

StreamKeys == {"STDIN", "STDOUT", "STDERR"}

(* C21: after any sequence of Execute tasks, whatever their ignore_stdout   *)
(* and ignore_stderr options, every stream key the context holds is a pipe  *)
(* of the process held under PROCESS; no pipe of an earlier process is left *)
(* under STDIN, STDOUT or STDERR.                                           *)
C21_StreamsOfCurrentProcess ==
    Has(env, "PROCESS") =>
        \A k \in StreamKeys \cap DOMAIN env :
            env[k].of = env["PROCESS"].process

----------------------------------------------------------------------------
(* C22: Disconnect on an open channel removes SOCKET and changes no other   *)
(* key: SOCKET_FILE and the capture buffer, contents and cursor, stay as    *)
(* they were, so a ParseLine run after the Disconnect reads the next unread *)
(* line received before it.                                                 *)
C22_DisconnectKeepsBuffer ==
    /\ [][(last'.task = "Disconnect" /\ Has(env, "SOCKET")) =>
            /\ DOMAIN env' = DOMAIN env \ {"SOCKET"}
            /\ \A k \in DOMAIN env' : env'[k] = env[k]]_vars
    /\ [][(last'.task = "ParseLine" /\ ~Has(env, "SOCKET") /\ Has(env, "STDOUT")) =>
            LET old == env["STDOUT"]
                new == env'["STDOUT"]
                unread == LinesFrom(SubSeq(old.buf, old.pos + 1, Len(old.buf)), 1)
            IN  /\ last'.err = "ok"
                /\ new.buf = old.buf
                /\ unread # <<>> =>
                       /\ new.pos = old.pos + Len(unread[1])
                       /\ env'["output"] =
                              PyList(MapSeq(PyStr, Split(unread[1], 1, <<>>)))]_vars

(* after the Disconnect, ParseLine has read the second of the lines that    *)
(* were received on the closed channel; its reader is still in the context  *)
C22_Witness ==
    /\ last.task = "ParseLine"
    /\ last.err = "ok"
    /\ ~Has(env, "SOCKET")
    /\ ~ChannelOpen
    /\ Has(env, "SOCKET_FILE")
    /\ LinesRead(env["STDOUT"]) = 2
    /\ env["output"] = PyList(<<PyStr(<<"a">>)>>)

----------------------------------------------------------------------------
(* Channels on a context that Return prunes: Connect, Send, Receive,        *)
(* Disconnect and Return with an allow-list over the keys of the channel.   *)
ReturnChannel == ReturnRun(SUBSET ChannelKeys)

NextPruned ==
    \/ Connect
    \/ Send
    \/ Receive
    \/ Disconnect
    \/ ReturnChannel
    \/ \E sid \in 1..MaxSockets : PeerSend(sid)
    \/ \E sid \in 1..MaxSockets : PeerClose(sid)

SpecPruned == Init /\ [][NextPruned]_vars

OpenSockets == {sid \in 1..Len(sockets) : sockets[sid].open}

(* C23: a socket opened by Connect is open only while the context holds it  *)
(* under SOCKET: with SOCKET absent no socket is open, and at most one      *)
(* socket is open at any time.                                              *)
C23_OpenOnlyUnderSocket ==
    /\ \A sid \in OpenSockets :
           Has(env, "SOCKET") /\ env["SOCKET"] = Socket(sid)
    /\ Cardinality(OpenSockets) <= 1

====
